---- MODULE Spec2Model ----
(***************************************************************************)
(* Model of src/common_crawl_downloader2025.py: the pre-run clearing of    *)
(* the destination directory, the segment driver loop, and                 *)
(* download_and_unzip (curl with --continue-at, the two-byte magic check,  *)
(* the streaming gunzip into out_path, the retry/back-off bookkeeping).    *)
(*                                                                         *)
(* Files are byte sequences.  A gzip stream is modelled as                 *)
(*   <<0x1F, 0x8B, code, ..., code, EOS, crc>>                             *)
(* where every code inflates to one output byte and crc is a checksum of   *)
(* the inflated bytes.  The gzip reader raises what CPython's gzip module  *)
(* raises: BadGzipFile for a bad member header or a bad checksum,          *)
(* EOFError for a stream that ends early, zlib.error for an invalid code.  *)
(***************************************************************************)
EXTENDS Integers, Sequences, FiniteSets, TLC

\* ---------------------------------------------------------------- bounds
MaxRetries == 2
MaxBackoff == 2
MaxIndex == 2

\* ------------------------------------------------------- byte-level model
Magic1 == 31
Magic2 == 139
EndOfStream == 0
CrcModulus == 7
Codes == {1, 2}

Inflate(c) == c + 64
Deflate(b) == b - 64

RECURSIVE SumSeq(_)
SumSeq(s) == IF s = <<>> THEN 0 ELSE Head(s) + SumSeq(Tail(s))

Crc(bytes) == SumSeq(bytes) % CrcModulus

RECURSIVE DeflateAll(_)
DeflateAll(s) == IF s = <<>> THEN <<>> ELSE <<Deflate(Head(s))>> \o DeflateAll(Tail(s))

GzipCompress(bytes) == <<Magic1, Magic2>> \o DeflateAll(bytes) \o <<EndOfStream, Crc(bytes)>>

\* the text of one segment and what the remote end can answer with
Payload == <<65, 66>>
Source == GzipCompress(Payload)
CorruptBody == <<Magic1, Magic2, 1, 2, EndOfStream, 6>>
TruncatedBody == <<Magic1, Magic2, 1>>
HtmlPage == <<60, 33, 60>>
Bodies == {Source, CorruptBody, TruncatedBody, HtmlPage}

\* ------------------------------------------------------------ directory
Segs == 0..(MaxIndex - 1)
GzName(n) == <<"gz", n>>
OutName(n) == <<"out", n>>
StaleCandidates == {<<"out", 0>>, <<"dir", 0>>, <<"link", 0>>, <<"fifo", 0>>}
RunStale == {<<"out", 0>>, <<"fifo", 0>>}

IsFile(name) == name[1] \in {"gz", "out"}
IsLink(name) == name[1] = "link"
IsDir(name) == name[1] = "dir"

VARIABLES
  pc, exitCode, retries, backoff, start_index, end_index, i,
  dir, gzData, outData,
  todo, listed, attempted, delFailed,
  attempt, res, ok, pos, crcAcc, newMember,
  attemptLog, slept, lastSleep, nAttempts, lastFail, failKinds,
  outAtStart, outAtAttempt, openedOut,
  segState, started

vars == <<pc, exitCode, retries, backoff, start_index, end_index, i,
          dir, gzData, outData, todo, listed, attempted, delFailed,
          attempt, res, ok, pos, crcAcc, newMember,
          attemptLog, slept, lastSleep, nAttempts, lastFail, failKinds,
          outAtStart, outAtAttempt, openedOut, segState, started>>

cfgVars == <<retries, backoff, start_index, end_index>>
clearVars == <<todo, listed, attempted, delFailed>>
readerVars == <<pos, crcAcc, newMember>>
sleepVars == <<slept, lastSleep>>

\* what a reader of out_path for segment n sees: <<present, bytes>>
OutView(n) == <<OutName(n) \in dir, outData[n]>>

\* ------------------------------------------------------------ gzip reader
\* One read of the gzip reader at position p of the compressed bytes g, with
\* running checksum c; nm says a member header is due.  The result names what
\* the read produced: a data byte, the clean end of the file, or the exception.
RECURSIVE GzipRead(_, _, _, _)
GzipRead(g, p, c, nm) ==
  IF nm
  THEN IF p > Len(g)
       THEN [kind |-> "end", byte |-> 0, pos |-> p, crc |-> c]
       ELSE IF p + 1 > Len(g) \/ g[p] # Magic1 \/ g[p + 1] # Magic2
            THEN [kind |-> "BadGzipFile", byte |-> 0, pos |-> p, crc |-> c]
            ELSE GzipRead(g, p + 2, 0, FALSE)
  ELSE IF p > Len(g)
       THEN [kind |-> "EOFError", byte |-> 0, pos |-> p, crc |-> c]
       ELSE IF g[p] \in Codes
            THEN [kind |-> "data", byte |-> Inflate(g[p]), pos |-> p + 1,
                  crc |-> (c + Inflate(g[p])) % CrcModulus]
            ELSE IF g[p] = EndOfStream
                 THEN IF p + 1 > Len(g)
                      THEN [kind |-> "EOFError", byte |-> 0, pos |-> p, crc |-> c]
                      ELSE IF g[p + 1] # c
                           THEN [kind |-> "BadGzipFile", byte |-> 0, pos |-> p, crc |-> c]
                           ELSE GzipRead(g, p + 2, 0, TRUE)
                 ELSE [kind |-> "zlib.error", byte |-> 0, pos |-> p, crc |-> c]

\* except (gzip.BadGzipFile, OSError): the exceptions the retry loop catches
Caught(kind) == kind \in {"BadGzipFile", "OSError"}

\* ------------------------------------------------------- small code steps
\* a check that looks at the first byte alone
MagicFirstByteOnly(g) == Len(g) >= 1 /\ g[1] = Magic1

\* magic == b"\x1f\x8b" on the first two bytes read from gz_path
MagicOk(g) == Len(g) >= 2 /\ g[1] = Magic1 /\ g[2] = Magic2

\* an open in append mode, which keeps what the file held
OpenAppend(old) == old

\* open(out_path, "wb"): the file is created or truncated
OpenWb(old) == <<>>

\* while attempt <= retries / if attempt > retries
Exhausted(a, r) == a > r

\* the exponential back-off the docstring speaks of
SleepExponential(b, a) == b * 2 ^ a

\* sleep_time = backoff * attempt
SleepTime(b, a) == b * a

\* a bare "return": the caller receives None
ReturnOnSuccess == "None"
Truthy(v) == v \notin {"None", "False"}

\* range(start_index, end_index)
InRange(n) == n >= start_index /\ n < end_index
StrideTwo(n) == n + 2
NextIndex(n) == n + 1

\* while attempt <= retries
LoopCond(a, r) == a <= r

\* an exception nobody catches ends the interpreter with status 1; the call of
\* download_and_unzip in the driver loop sits in no try block
UncaughtExit == 1
DriverSwallows == TRUE
DriverCatches == FALSE

\* a clearing loop that gives up at the first error
AbandonRest(t, name) == {}

\* the except clause of the clearing loop: go on with the remaining entries
RemainingAfterError(t, name) == t \ {name}

\* curl --continue-at - : the bytes of body past the size of the existing file
Rest(body, g) == IF Len(g) >= Len(body) THEN <<>> ELSE SubSeq(body, Len(g) + 1, Len(body))

\* a curl without --continue-at: the output file is written from byte zero
Overwrite(g, body) == body

\* curl --continue-at - -o gz_path: the file after a transfer that completes
Resume(g, body) == g \o Rest(body, g)

\* the file after a transfer that drops m bytes into what was still to come
ResumePart(g, body, m) == Resume(g, SubSeq(body, 1, Len(g) + m))

\* ------------------------------------------------------------------ Init
\* the state of a fresh interpreter, whatever the configuration and the directory
Fresh ==
  /\ pc = "start"
  /\ exitCode = -1
  /\ i = 0
  /\ gzData = [n \in Segs |-> <<>>]
  /\ outData = [n \in Segs |-> IF OutName(n) \in dir THEN Payload ELSE <<>>]
  /\ todo = {} /\ listed = {} /\ attempted = {} /\ delFailed = {}
  /\ attempt = 0 /\ res = 0 /\ ok = "None"
  /\ pos = 1 /\ crcAcc = 0 /\ newMember = TRUE
  /\ attemptLog = {} /\ slept = 0 /\ lastSleep = 0
  /\ nAttempts = 0 /\ lastFail = "none" /\ failKinds = {}
  /\ outAtStart = <<FALSE, <<>>>> /\ outAtAttempt = <<FALSE, <<>>>>
  /\ openedOut = FALSE
  /\ segState = [n \in Segs |-> "NotStarted"]
  /\ started = <<>>

\* every retry budget, back-off base and index range of the bounds, over a
\* destination directory holding at most an old output and a special file
Init ==
  /\ retries \in 0..MaxRetries
  /\ backoff \in 1..MaxBackoff
  /\ start_index \in 0..MaxIndex
  /\ end_index \in 0..MaxIndex
  /\ dir \in SUBSET RunStale
  /\ Fresh

\* one segment, at most one retry, over every stale directory content
InitClear ==
  /\ retries \in {0, 1}
  /\ backoff = 1
  /\ start_index = 0
  /\ end_index = 1
  /\ dir \in SUBSET StaleCandidates
  /\ Fresh

\* ------------------------------------------- clearing (lines 57 to 71)
ListDir ==
  /\ pc = "start"
  /\ pc' = "clearing"
  /\ todo' = dir
  /\ listed' = dir
  /\ UNCHANGED <<exitCode, cfgVars, i, dir, gzData, outData, attempted, delFailed,
                 attempt, res, ok, readerVars, attemptLog, sleepVars, nAttempts,
                 lastFail, failKinds, outAtStart, outAtAttempt, openedOut,
                 segState, started>>

clearFrame == <<pc, exitCode, cfgVars, i, gzData, listed,
                attempt, res, ok, readerVars, attemptLog, sleepVars, nAttempts,
                lastFail, failKinds, outAtStart, outAtAttempt, openedOut,
                segState, started>>

Deletable(name) == IsFile(name) \/ IsLink(name) \/ IsDir(name)

\* os.unlink / shutil.rmtree succeeds
DeleteEntry ==
  /\ pc = "clearing"
  /\ \E name \in todo :
       /\ Deletable(name)
       /\ dir' = dir \ {name}
       /\ outData' = IF name[1] = "out" THEN [outData EXCEPT ![name[2]] = <<>>] ELSE outData
       /\ attempted' = attempted \cup {name}
       /\ todo' = todo \ {name}
  /\ UNCHANGED <<clearFrame, delFailed>>

\* os.unlink / shutil.rmtree raises: the except clause prints and the loop goes on
DeleteEntryFails ==
  /\ pc = "clearing"
  /\ \E name \in todo :
       /\ Deletable(name)
       /\ attempted' = attempted \cup {name}
       /\ delFailed' = delFailed \cup {name}
       /\ todo' = RemainingAfterError(todo, name)
  /\ UNCHANGED <<clearFrame, dir, outData>>

\* neither file, link nor directory: no branch of the if/elif applies
SkipEntry ==
  /\ pc = "clearing"
  /\ \E name \in todo :
       /\ ~Deletable(name)
       /\ todo' = todo \ {name}
  /\ UNCHANGED <<clearFrame, dir, outData, attempted, delFailed>>

ClearDone ==
  /\ pc = "clearing"
  /\ todo = {}
  /\ pc' = "loop"
  /\ i' = start_index
  /\ UNCHANGED <<exitCode, cfgVars, dir, gzData, outData, clearVars,
                 attempt, res, ok, readerVars, attemptLog, sleepVars, nAttempts,
                 lastFail, failKinds, outAtStart, outAtAttempt, openedOut,
                 segState, started>>

\* --------------------------------------- driver loop (lines 73 to 91)
\* for i in range(...): the next index exists, download_and_unzip is called
DriverCall ==
  /\ pc = "loop"
  /\ InRange(i)
  /\ pc' = "download"
  /\ attempt' = 0
  /\ nAttempts' = 0
  /\ slept' = 0 /\ lastSleep' = 0
  /\ lastFail' = "none" /\ failKinds' = {}
  /\ attemptLog' = {}
  /\ outAtStart' = OutView(i)
  /\ segState' = [segState EXCEPT ![i] = "Running"]
  /\ started' = Append(started, i)
  /\ UNCHANGED <<exitCode, cfgVars, i, dir, gzData, outData, clearVars, res, ok,
                 readerVars, outAtAttempt, openedOut>>

\* the range is exhausted: the script ends normally
DriverFinish ==
  /\ pc = "loop"
  /\ ~InRange(i)
  /\ pc' = "exit"
  /\ exitCode' = 0
  /\ UNCHANGED <<cfgVars, i, dir, gzData, outData, clearVars, attempt, res, ok,
                 readerVars, attemptLog, sleepVars, nAttempts, lastFail, failKinds,
                 outAtStart, outAtAttempt, openedOut, segState, started>>

\* ok = download_and_unzip(...); if not ok: print, continue; else os.remove(gz)
AfterReturn ==
  /\ pc = "returned"
  /\ IF Truthy(ok)
     THEN /\ dir' = dir \ {GzName(i)}
          /\ gzData' = [gzData EXCEPT ![i] = <<>>]
     ELSE UNCHANGED <<dir, gzData>>
  /\ i' = NextIndex(i)
  /\ pc' = "loop"
  /\ UNCHANGED <<exitCode, cfgVars, outData, clearVars, attempt, res, ok,
                 readerVars, attemptLog, sleepVars, nAttempts, lastFail, failKinds,
                 outAtStart, outAtAttempt, openedOut, segState, started>>

\* an exception leaves download_and_unzip: nothing in the driver catches it
Propagate ==
  /\ pc = "raised"
  /\ IF DriverCatches
     THEN /\ pc' = "loop"
          /\ i' = NextIndex(i)
          /\ UNCHANGED exitCode
     ELSE /\ pc' = "exit"
          /\ exitCode' = UncaughtExit
          /\ UNCHANGED i
  /\ UNCHANGED <<cfgVars, dir, gzData, outData, clearVars, attempt, res, ok,
                 readerVars, attemptLog, sleepVars, nAttempts, lastFail, failKinds,
                 outAtStart, outAtAttempt, openedOut, segState, started>>

\* ------------------------------- download_and_unzip (lines 15 to 47)
\* what every curl invocation of the loop body has in common (lines 16 to 22)
StartAttempt ==
  /\ pc = "download"
  /\ LoopCond(attempt, retries)
  /\ pc' = "verify"
  /\ nAttempts' = nAttempts + 1
  /\ attemptLog' = {"downloading"}
  /\ outAtAttempt' = OutView(i)
  /\ openedOut' = FALSE
  /\ lastFail' = "none"
  /\ UNCHANGED <<exitCode, cfgVars, i, outData, clearVars, attempt, ok, readerVars,
                 sleepVars, failKinds, outAtStart, segState, started>>

\* curl exits 0: the rest of the body is appended to what gz_path holds
TransferComplete ==
  /\ StartAttempt
  /\ \E body \in Bodies :
       gzData' = [gzData EXCEPT ![i] = Resume(gzData[i], body)]
  /\ dir' = dir \cup {GzName(i)}
  /\ res' = 0

\* the connection drops after m more bytes: curl exits 18, the bytes stay
TransferDropped ==
  /\ StartAttempt
  /\ \E body \in Bodies :
       \E m \in 1..(Len(Rest(body, gzData[i])) - 1) :
          gzData' = [gzData EXCEPT ![i] = ResumePart(gzData[i], body, m)]
  /\ dir' = dir \cup {GzName(i)}
  /\ res' = 18

\* no connection or an HTTP error under --fail: curl exits 22, nothing is written
TransferRefused ==
  /\ StartAttempt
  /\ res' = 22
  /\ UNCHANGED <<dir, gzData>>

verifyFrame == <<exitCode, cfgVars, i, dir, gzData, outData, clearVars, attempt, res,
                 ok, readerVars, sleepVars, nAttempts, outAtStart, outAtAttempt,
                 openedOut, segState, started>>

\* if res.returncode != 0: print("curl failed:", ...)
CurlFailed ==
  /\ pc = "verify"
  /\ res # 0
  /\ attemptLog' = attemptLog \cup {"curl failed"}
  /\ lastFail' = "transfer"
  /\ failKinds' = failKinds \cup {"transfer"}
  /\ pc' = "retry"
  /\ UNCHANGED verifyFrame

\* the two bytes read are not the magic: control falls to the retry bookkeeping
MagicMismatch ==
  /\ pc = "verify"
  /\ res = 0
  /\ ~MagicOk(gzData[i])
  /\ lastFail' = "magic"
  /\ failKinds' = failKinds \cup {"magic"}
  /\ pc' = "retry"
  /\ UNCHANGED <<verifyFrame, attemptLog>>

MagicMatch ==
  /\ pc = "verify"
  /\ res = 0
  /\ MagicOk(gzData[i])
  /\ pc' = "open"
  /\ UNCHANGED <<verifyFrame, attemptLog, lastFail, failKinds>>

\* with gzip.open(gz_path, "rb") as f_in, open(out_path, "wb") as f_out
OpenOut ==
  /\ pc = "open"
  /\ dir' = dir \cup {OutName(i)}
  /\ outData' = [outData EXCEPT ![i] = OpenWb(outData[i])]
  /\ openedOut' = TRUE
  /\ pos' = 1 /\ crcAcc' = 0 /\ newMember' = TRUE
  /\ pc' = "copy"
  /\ UNCHANGED <<exitCode, cfgVars, i, gzData, clearVars, attempt, res, ok,
                 attemptLog, sleepVars, nAttempts, lastFail, failKinds,
                 outAtStart, outAtAttempt, segState, started>>

ThisRead == GzipRead(gzData[i], pos, crcAcc, newMember)

copyFrame == <<exitCode, cfgVars, i, dir, gzData, clearVars, attempt, res,
               sleepVars, nAttempts, outAtStart, outAtAttempt, openedOut, started>>

\* shutil.copyfileobj: one chunk is read and written to out_path
CopyWrite ==
  /\ pc = "copy"
  /\ ThisRead.kind = "data"
  /\ outData' = [outData EXCEPT ![i] = Append(outData[i], ThisRead.byte)]
  /\ pos' = ThisRead.pos /\ crcAcc' = ThisRead.crc /\ newMember' = FALSE
  /\ UNCHANGED <<copyFrame, pc, ok, attemptLog, lastFail, failKinds, segState>>

\* the write raises OSError (the disk is full): except prints "gunzip failed"
CopyWriteFails ==
  /\ pc = "copy"
  /\ ThisRead.kind = "data"
  /\ Caught("OSError")
  /\ attemptLog' = attemptLog \cup {"gunzip failed"}
  /\ lastFail' = "decompress"
  /\ failKinds' = failKinds \cup {"decompress"}
  /\ pc' = "retry"
  /\ UNCHANGED <<copyFrame, outData, ok, readerVars, segState>>

\* the reader raises an exception the except clause names
CopyCaught ==
  /\ pc = "copy"
  /\ ThisRead.kind \notin {"data", "end"}
  /\ Caught(ThisRead.kind)
  /\ attemptLog' = attemptLog \cup {"gunzip failed"}
  /\ lastFail' = "decompress"
  /\ failKinds' = failKinds \cup {"decompress"}
  /\ pc' = "retry"
  /\ UNCHANGED <<copyFrame, outData, ok, readerVars, segState>>

\* the reader raises EOFError or zlib.error: no handler, it leaves the function
CopyUncaught ==
  /\ pc = "copy"
  /\ ThisRead.kind \notin {"data", "end"}
  /\ ~Caught(ThisRead.kind)
  /\ lastFail' = "decompress"
  /\ failKinds' = failKinds \cup {"decompress"}
  /\ segState' = [segState EXCEPT ![i] = "Crashed"]
  /\ pc' = "raised"
  /\ UNCHANGED <<copyFrame, outData, ok, readerVars, attemptLog>>

\* the copy ends: print OK and return
CopyDone ==
  /\ pc = "copy"
  /\ ThisRead.kind = "end"
  /\ attemptLog' = attemptLog \cup {"ok"}
  /\ ok' = ReturnOnSuccess
  /\ segState' = [segState EXCEPT ![i] = "Succeeded"]
  /\ pc' = "returned"
  /\ UNCHANGED <<copyFrame, outData, readerVars, lastFail, failKinds>>

retryFrame == <<cfgVars, i, dir, gzData, outData, clearVars, res, ok, readerVars,
                nAttempts, lastFail, failKinds, outAtStart, outAtAttempt, openedOut,
                started>>

\* attempt += 1; if attempt > retries: raise RuntimeError
RaiseFatal ==
  /\ pc = "retry"
  /\ Exhausted(attempt + 1, retries)
  /\ attempt' = attempt + 1
  /\ segState' = [segState EXCEPT ![i] = "Failed"]
  /\ pc' = "raised"
  /\ UNCHANGED <<retryFrame, exitCode, attemptLog, sleepVars>>

\* attempt += 1; sleep_time = backoff * attempt; print; time.sleep(sleep_time)
RetrySleep ==
  /\ pc = "retry"
  /\ ~Exhausted(attempt + 1, retries)
  /\ attempt' = attempt + 1
  /\ lastSleep' = SleepTime(backoff, attempt + 1)
  /\ slept' = slept + SleepTime(backoff, attempt + 1)
  /\ attemptLog' = attemptLog \cup {"retrying"}
  /\ pc' = "download"
  /\ UNCHANGED <<retryFrame, exitCode, segState>>

Next ==
  \/ ListDir \/ DeleteEntry \/ DeleteEntryFails \/ SkipEntry \/ ClearDone
  \/ DriverCall \/ DriverFinish \/ AfterReturn \/ Propagate
  \/ TransferComplete \/ TransferDropped \/ TransferRefused
  \/ CurlFailed \/ MagicMismatch \/ MagicMatch
  \/ OpenOut \/ CopyWrite \/ CopyWriteFails \/ CopyCaught \/ CopyUncaught \/ CopyDone
  \/ RaiseFatal \/ RetrySleep

Spec == Init /\ [][Next]_vars

SpecClear == InitClear /\ [][Next]_vars

\* ================================================================ claims
Unsuccessful == {"Failed", "Crashed"}
Triangular(k) == (k * (k + 1)) \div 2

\* C1: once download_and_unzip has succeeded for a segment and the driver has
\* moved past it, the segment's .gz file is gone from the directory.
C1_GzDeletedAfterSuccess ==
  \A n \in Segs :
    (segState[n] = "Succeeded" /\ ~(pc = "returned" /\ i = n)) => GzName(n) \notin dir

\* C2: in every state the file at a segment's out_path is absent or holds the
\* complete decompression of the segment.
C2_OutAbsentOrComplete ==
  \A n \in Segs : OutName(n) \in dir => outData[n] = Payload

\* C3: no invocation makes more than retries + 1 download attempts; one in
\* which every attempt failed ends after exactly retries + 1 attempts, never
\* fewer; and when all the failures were transfer failures and out_path was
\* absent at the call, out_path is absent at the end.
C3_FailsAfterAllAttempts ==
  /\ nAttempts <= retries + 1
  /\ \A n \in Segs :
       segState[n] \in Unsuccessful =>
         /\ nAttempts = retries + 1
         /\ (failKinds \subseteq {"transfer"} /\ ~outAtStart[1]) => OutName(n) \notin dir

\* C4: after a segment has ended in Failed the loop index stays on it, no later
\* segment is started, nothing but the exit remains and the exit code is not 0;
\* an exit code of 0 means every segment of the range has succeeded.
C4_FailFast ==
  /\ \A n \in Segs :
       segState[n] = "Failed" =>
         /\ pc \in {"raised", "exit"}
         /\ i = n
         /\ (pc = "exit" => exitCode # 0)
         /\ \A m \in Segs : m > n => segState[m] = "NotStarted"
  /\ (pc = "exit" /\ exitCode = 0) =>
       \A n \in Segs : InRange(n) => segState[n] = "Succeeded"

C4_Witness ==
  \E n \in Segs :
    /\ segState[n] = "Failed"
    /\ InRange(n + 1)
    /\ pc = "exit"
    /\ exitCode = 1

\* C5: a segment whose fetch has succeeded has at out_path exactly the
\* decompression of the source stream, whatever earlier failed attempts (or an
\* earlier run) left there.
C5_SuccessIsFullDecompression ==
  \A n \in Segs :
    segState[n] = "Succeeded" => (OutName(n) \in dir /\ outData[n] = Payload)

\* success on a later attempt that started over a partial file left by a failed
\* decompression
C5_Witness ==
  \E n \in Segs :
    /\ segState[n] = "Succeeded"
    /\ pc = "returned" /\ i = n
    /\ "decompress" \in failKinds
    /\ outAtAttempt[1]
    /\ outAtAttempt[2] # Payload
    /\ Len(outAtAttempt[2]) > 0

\* C6: the segments started are start_index, start_index + 1, ... with no gap
\* and no repeat, all inside [start_index, end_index); a normal end has started
\* all of them (none for an empty range); and a segment is started only when
\* its predecessor has reached a terminal state.
C6_AscendingOneAtATime ==
  /\ \A k \in 1..Len(started) :
       /\ started[k] = start_index + k - 1
       /\ InRange(started[k])
       /\ (k < Len(started) => segState[started[k]] \in {"Succeeded", "Failed"})
  /\ \A n \in Segs :
       segState[n] = "Running" => (Len(started) > 0 /\ started[Len(started)] = n)
  /\ (pc = "exit" /\ exitCode = 0) =>
       Len(started) = (IF end_index > start_index THEN end_index - start_index ELSE 0)

C6_Witness ==
  /\ Len(started) = 2
  /\ pc = "exit"
  /\ exitCode = 0

\* C7: out_path is opened, and the copy runs, only over a gz_path whose first
\* two bytes are 0x1F 0x8B; an attempt that ended on a magic mismatch has not
\* opened or changed out_path and is in the retry bookkeeping (or past it);
\* and an invocation all of whose attempts ended on a mismatch ends in Failed
\* after retries + 1 attempts.
C7_MismatchSkipsDecompression ==
  /\ pc \in {"open", "copy"} =>
       (Len(gzData[i]) >= 2 /\ gzData[i][1] = 31 /\ gzData[i][2] = 139)
  /\ lastFail = "magic" =>
       /\ ~openedOut
       /\ OutView(i) = outAtAttempt
       /\ pc \in {"retry", "download", "raised", "exit"}
       /\ ~MagicOk(gzData[i])
  /\ (pc \in {"raised", "exit"} /\ failKinds = {"magic"} /\ lastFail = "magic") =>
       (segState[i] = "Failed" /\ nAttempts = retries + 1)

\* every attempt of a budget of two or more ended on a mismatch; the fatal
\* error has been raised
C7_Witness ==
  /\ pc = "raised"
  /\ lastFail = "magic"
  /\ failKinds = {"magic"}
  /\ nAttempts >= 2
  /\ segState[i] = "Failed"

C10_EveryFailureLogged ==
  (lastFail # "none" /\ (pc = "download" \/ (pc = "raised" /\ segState[i] = "Failed"))) =>
    (attemptLog \cap {"curl failed", "gunzip failed", "retrying"}) # {}

\* one step of an invocation, seen from gz_path
GzKeptStep ==
  pc \in {"download", "verify", "open", "copy", "retry"} =>
    /\ (GzName(i) \in dir => GzName(i) \in dir')
    /\ Len(gzData'[i]) >= Len(gzData[i])
    /\ SubSeq(gzData'[i], 1, Len(gzData[i])) = gzData[i]
    /\ (pc # "download" => gzData' = gzData)

\* C11: from the start of an attempt's transfer to the end of its retry
\* bookkeeping, gz_path is never removed and never loses or changes a byte it
\* holds: the checks, the copy and the bookkeeping leave it as it is, and a
\* transfer only appends to what the earlier attempts left.
C11_GzKeptAndResumed ==
  [][GzKeptStep]_vars

\* a later attempt's transfer has completed onto a file that failed the magic
\* check: the page is still there, the rest of the source follows it
C11_Witness ==
  /\ pc = "verify"
  /\ attempt >= 1
  /\ "magic" \in failKinds
  /\ res = 0
  /\ GzName(i) \in dir
  /\ gzData[i] = HtmlPage \o SubSeq(Source, Len(HtmlPage) + 1, Len(Source))

====
